---- MODULE Spec2Model ----
(***************************************************************************)
(* Model of the insurance QA bot: the ingestion pipeline of ingest.py      *)
(* (URL discovery, article scraping, embedding and upsert) and the chat    *)
(* pipeline of qa_bot.py / app.py (get_answer, the per-session message     *)
(* log, the process-wide conversation memory).                             *)
(*                                                                         *)
(* Python strings are sequences of one-character strings, so that          *)
(* substring tests, lower-casing, urlparse and f-string formatting are      *)
(* computed the way the code computes them.                                *)
(***************************************************************************)
EXTENDS Integers, Sequences, FiniteSets, TLC

VARIABLES
    (* get_article_urls applied to one input (SpecDiscovery) *)
    call, ret,
    (* one run of main() in ingest.py (Spec) *)
    pc, seedIdx, article_urls, batch, embedLog, lastCall, lastUpsert,
    (* process_and_upload_articles re-run on one input (SpecReindex) *)
    articlesIn, index, runs,
    (* the Streamlit sessions of app.py over the qa_bot module (SpecChat) *)
    messages, chatPc, prompt, response, memory, lastAnswer, exchanges, questions,
    (* scrape_article applied to one article page (SpecScrape) *)
    scrapeCall, scrapeRet

discoveryVars == <<call, ret>>
runVars == <<pc, seedIdx, article_urls, batch, embedLog, lastCall, lastUpsert>>
reindexVars == <<articlesIn, index, runs>>
chatVars ==
    <<messages, chatPc, prompt, response, memory, lastAnswer, exchanges, questions>>
scrapeVars == <<scrapeCall, scrapeRet>>
vars == <<discoveryVars, runVars, reindexVars, chatVars, scrapeVars>>

----------------------------------------------------------------------------
(* Bounds of the model.                                                    *)

\* content areas found on a rendered page
MaxAreas == 2
\* anchors inside one content area
MaxLinks == 2
\* stand-in for "max_articles": 20 of the shipped sources
MaxArticles == 2
\* chunks of an ordinary article
MaxChunks == 2
\* runs of the indexer on one input
MaxRuns == 2
\* questions submitted over all chat sessions
MaxQuestions == 3

----------------------------------------------------------------------------
(* Python string operations.                                               *)

UpperLetters ==
    <<"A", "B", "C", "D", "E", "F", "G", "H", "I", "J", "K", "L", "M",
      "N", "O", "P", "Q", "R", "S", "T", "U", "V", "W", "X", "Y", "Z">>

LowerLetters ==
    <<"a", "b", "c", "d", "e", "f", "g", "h", "i", "j", "k", "l", "m",
      "n", "o", "p", "q", "r", "s", "t", "u", "v", "w", "x", "y", "z">>

\* one character of str.lower()
LowerChar(c) ==
    IF \E k \in DOMAIN UpperLetters : UpperLetters[k] = c
    THEN LowerLetters[CHOOSE k \in DOMAIN UpperLetters : UpperLetters[k] = c]
    ELSE c

\* str.lower()
Lower(s) ==
    [k \in DOMAIN s |-> LowerChar(s[k])]

\* "t in s" on strings
Contains(s, t) ==
    \E k \in 0 .. (Len(s) - Len(t)) : SubSeq(s, k + 1, k + Len(t)) = t

\* s.startswith(t)
StartsWith(s, t) ==
    Len(s) >= Len(t) /\ SubSeq(s, 1, Len(t)) = t

\* str.strip(): leading and trailing blanks removed
RECURSIVE Strip(_)
Strip(s) ==
    IF s = <<>> THEN s
    ELSE IF Head(s) = " " THEN Strip(Tail(s))
    ELSE IF s[Len(s)] = " " THEN Strip(SubSeq(s, 1, Len(s) - 1))
    ELSE s

\* position of the first character of s at or after k that is in cs, or
\* Len(s) + 1 when there is none
RECURSIVE FindFirst(_, _, _)
FindFirst(s, k, cs) ==
    IF k > Len(s) THEN Len(s) + 1
    ELSE IF s[k] \in cs THEN k
    ELSE FindFirst(s, k + 1, cs)

\* urlparse(url).netloc: what follows "scheme://" up to the next "/", "?" or "#"
Netloc(url) ==
    LET colon == FindFirst(url, 1, {":"})
    IN  IF colon + 2 <= Len(url) /\ url[colon + 1] = "/" /\ url[colon + 2] = "/"
        THEN SubSeq(url, colon + 3, FindFirst(url, colon + 3, {"/", "?", "#"}) - 1)
        ELSE <<>>

Digits ==
    <<"0", "1", "2", "3", "4", "5", "6", "7", "8", "9">>

\* str(i) of a non-negative integer, as the f-string formats it
RECURSIVE Decimal(_)
Decimal(i) ==
    IF i < 10 THEN <<Digits[i + 1]>>
    ELSE Decimal(i \div 10) \o <<Digits[(i % 10) + 1]>>

Http ==
    <<"h", "t", "t", "p">>

----------------------------------------------------------------------------
(* The URLs, patterns and terms the model draws its inputs from.           *)

SeedA ==
    <<"h", "t", "t", "p", "s", ":", "/", "/", "a", ".", "c", "o", "/", "c", "a", "r", "-", "i", "n", "s", "u", "r", "a", "n", "c", "e">>

SeedB ==
    <<"h", "t", "t", "p", "s", ":", "/", "/", "b", ".", "c", "o", "/", "c", "a", "r", "-", "i", "n", "s", "u", "r", "a", "n", "c", "e">>

SeedB2 ==
    <<"h", "t", "t", "p", "s", ":", "/", "/", "b", ".", "c", "o", "/", "c", "a", "r", "-", "i", "n", "s", "u", "r", "a", "n", "c", "e", "/", "x">>

HrefQuoteBuilder ==
    <<"h", "t", "t", "p", "s", ":", "/", "/", "a", ".", "c", "o", "/", "c", "a", "r", "-", "i", "n", "s", "u", "r", "a", "n", "c", "e", "/", "q", "u", "o", "t", "e", "-", "b", "u", "i", "l", "d", "e", "r">>

HrefDeductibles ==
    <<"h", "t", "t", "p", "s", ":", "/", "/", "a", ".", "c", "o", "/", "c", "a", "r", "-", "i", "n", "s", "u", "r", "a", "n", "c", "e", "/", "d", "e", "d", "u", "c", "t", "i", "b", "l", "e", "s", "-", "e", "x", "p", "l", "a", "i", "n", "e", "d">>

HrefQuoteTips ==
    <<"h", "t", "t", "p", "s", ":", "/", "/", "a", ".", "c", "o", "/", "c", "a", "r", "-", "i", "n", "s", "u", "r", "a", "n", "c", "e", "/", "Q", "u", "o", "t", "e", "-", "T", "i", "p", "s">>

HrefGlass ==
    <<"h", "t", "t", "p", "s", ":", "/", "/", "a", ".", "c", "o", "/", "c", "a", "r", "-", "i", "n", "s", "u", "r", "a", "n", "c", "e", "/", "g", "l", "a", "s", "s">>

HrefOtherOrigin ==
    <<"h", "t", "t", "p", "s", ":", "/", "/", "b", ".", "c", "o", "/", "c", "a", "r", "-", "i", "n", "s", "u", "r", "a", "n", "c", "e", "/", "g", "l", "a", "s", "s">>

HrefAbout ==
    <<"h", "t", "t", "p", "s", ":", "/", "/", "a", ".", "c", "o", "/", "a", "b", "o", "u", "t">>

HrefMailto ==
    <<"m", "a", "i", "l", "t", "o", ":", "x", "@", "a", ".", "c", "o">>

PatternCarInsurance ==
    <<"/", "c", "a", "r", "-", "i", "n", "s", "u", "r", "a", "n", "c", "e", "/">>

TermQuote ==
    <<"q", "u", "o", "t", "e">>

TermCalculator ==
    <<"c", "a", "l", "c", "u", "l", "a", "t", "o", "r">>

TermQuoteCapital ==
    <<"Q", "u", "o", "t", "e">>

\* visible text of an anchor, and a text that is blank once stripped
TextGo ==
    <<"g", "o">>

TextBlank ==
    <<" ">>

Range(s) ==
    {s[k] : k \in DOMAIN s}

SeqsUpTo(S, n) ==
    UNION {[1 .. k -> S] : k \in 0 .. n}

----------------------------------------------------------------------------
(* ingest.py: get_article_urls.                                            *)

\* an anchor element: link.get_attribute("href") (<<>> stands for None) and
\* link.text
Links ==
    {[href |-> h, text |-> TextGo] :
        h \in {HrefQuoteBuilder, HrefDeductibles, HrefQuoteTips, HrefGlass,
               HrefOtherOrigin, HrefAbout, HrefMailto, <<>>}}
    \cup {[href |-> HrefDeductibles, text |-> TextBlank]}

\* a content area: its anchors, or an element whose find_elements raises
Areas ==
    {[stale |-> FALSE, links |-> ls] : ls \in SeqsUpTo(Links, MaxLinks)}
    \cup {[stale |-> TRUE, links |-> <<>>]}

EmptyArea ==
    [stale |-> FALSE, links |-> <<>>]

\* a rendered page: the content areas strategies 1 to 3 find, in order, and
\* the anchors of <body>, which is scanned only when they find none
PagesOf(maxAreas) ==
    {[areas |-> as, body |-> EmptyArea] :
        as \in SeqsUpTo(Areas, maxAreas) \ {<<>>}}
    \cup {[areas |-> <<>>, body |-> b] : b \in Areas}

Pages ==
    PagesOf(MaxAreas)

EmptyPage ==
    [areas |-> <<>>, body |-> EmptyArea]

\* what the environment does to one browser session: setup_driver returns a
\* driver, fails before the browser exists, or fails after webdriver.Firefox
\* returned (set_page_load_timeout raises); the page load succeeds or times
\* out; the page is an access-denied page or the rendered page
SetupOutcomes ==
    {"ok", "start_failed", "created_then_failed"}

BrowserEnvs(pages) ==
    {[setup |-> s, load |-> "ok", denied |-> FALSE, page |-> EmptyPage] :
        s \in SetupOutcomes \ {"ok"}}
    \cup {[setup |-> "ok", load |-> "timeout", denied |-> FALSE, page |-> EmptyPage]}
    \cup {[setup |-> "ok", load |-> "ok", denied |-> TRUE, page |-> EmptyPage]}
    \cup {[setup |-> "ok", load |-> "ok", denied |-> FALSE, page |-> p] : p \in pages}

\* the filters of lines 209-239 that a link must pass to be added
KeepsLink(link, source_config, base_url) ==
    LET href == link.href
        text == Strip(link.text)
    IN  /\ href # <<>>
        /\ text # <<>>
        /\ StartsWith(href, Http)
        /\ Netloc(href) = Netloc(base_url)
        /\ \E pattern \in Range(source_config.article_patterns) :
               Contains(href, pattern)
        /\ ~ \E term \in Range(source_config.excluded_terms) :
               Contains(Lower(href), term)

\* the loop over the links of one content area; returned is TRUE when the
\* loop left the function at the max_articles check
RECURSIVE ScanLinks(_, _, _, _)
ScanLinks(links, urls, source_config, base_url) ==
    IF links = <<>> THEN [urls |-> urls, returned |-> FALSE]
    ELSE IF Cardinality(urls) >= source_config.max_articles
    THEN [urls |-> urls, returned |-> TRUE]
    ELSE ScanLinks(Tail(links),
                   IF KeepsLink(Head(links), source_config, base_url)
                   THEN urls \cup {Head(links).href}
                   ELSE urls,
                   source_config, base_url)

\* the loop over the content areas; an area whose find_elements raises is
\* skipped by the inner except
RECURSIVE ScanAreas(_, _, _, _)
ScanAreas(content_areas, urls, source_config, base_url) ==
    IF content_areas = <<>> THEN [urls |-> urls, returned |-> FALSE]
    ELSE IF Head(content_areas).stale
    THEN ScanAreas(Tail(content_areas), urls, source_config, base_url)
    ELSE LET r == ScanLinks(Head(content_areas).links, urls, source_config, base_url)
         IN  IF r.returned THEN r
             ELSE ScanAreas(Tail(content_areas), r.urls, source_config, base_url)

\* get_article_urls: the set it returns, whether it raised instead, the
\* browser sessions created during the call, the driver.quit() calls made
\* on them, and the exit path taken.  When setup_driver raises, "driver" is
\* unbound in the finally clause and driver.quit() raises UnboundLocalError.
GetArticleUrls(source_config, base_url, env) ==
    IF env.setup # "ok"
    THEN [urls |-> {}, raised |-> TRUE,
          created |-> IF env.setup = "created_then_failed" THEN 1 ELSE 0,
          quits |-> 0, exit |-> "unbound"]
    ELSE IF env.load # "ok"
    THEN [urls |-> {}, raised |-> FALSE, created |-> 1, quits |-> 1,
          exit |-> "caught"]
    ELSE IF env.denied
    THEN [urls |-> {}, raised |-> FALSE, created |-> 1, quits |-> 1,
          exit |-> "denied"]
    ELSE LET content_areas ==
                 IF env.page.areas = <<>> THEN <<env.page.body>>
                 ELSE env.page.areas
             r == ScanAreas(content_areas, {}, source_config, base_url)
         IN  [urls |-> r.urls, raised |-> FALSE, created |-> 1, quits |-> 1,
              exit |-> IF r.returned THEN "capped" ELSE "normal"]

NoRet ==
    [urls |-> {}, raised |-> FALSE, created |-> 0, quits |-> 0, exit |-> "none"]

\* source configurations get_article_urls is applied to
DiscoveryConfigs ==
    {[article_patterns |-> <<PatternCarInsurance>>,
      excluded_terms |-> ts,
      max_articles |-> m] :
        ts \in {<<TermQuote, TermCalculator>>, <<TermQuoteCapital>>},
        m \in 0 .. MaxArticles}

----------------------------------------------------------------------------
(* ingest.py: scrape_article.                                              *)

\* what one CSS selector finds on the article page: find_elements raises,
\* no element, one element with blank text, one element with text, or two
\* elements with text
SelectorOutcomes ==
    {"raises", "none", "blank", "text", "two"}

\* the source-specific selectors of a source (two in every shipped source)
\* and the fallback selectors "article", "main", ".content", "#content"
NumContentSelectors == 2

NumFallbackSelectors == 4

ArticlePages ==
    [specific : [1 .. NumContentSelectors -> SelectorOutcomes],
     fallback : [1 .. NumFallbackSelectors -> SelectorOutcomes]]

EmptyArticlePage ==
    [specific |-> [k \in 1 .. NumContentSelectors |-> "none"],
     fallback |-> [k \in 1 .. NumFallbackSelectors |-> "none"]]

\* the text of the elements selector number k finds; the element texts name
\* the selector, so that the content shows which selectors contributed
ElementText(kind, k) ==
    <<kind>> \o Decimal(k)

\* "\n".join(element.text for element in elements if element.text.strip())
JoinedText(outcome, kind, k) ==
    IF outcome = "text" THEN ElementText(kind, k)
    ELSE IF outcome = "two" THEN ElementText(kind, k) \o <<"\n">> \o ElementText(kind, k)
    ELSE <<>>

\* the loop "for selector in ...: content += ..." over selectors k .. n
RECURSIVE AppendSelectors(_, _, _, _)
AppendSelectors(content, outcomes, kind, k) ==
    IF k > Len(outcomes) THEN content
    ELSE AppendSelectors(content \o JoinedText(outcomes[k], kind, k),
                         outcomes, kind, k + 1)

\* lines 270-288: the source-specific selectors first, the fallbacks only
\* when they gave no content
ScrapeContent(page) ==
    LET content == AppendSelectors(<<>>, page.specific, "s", 1)
    IN  IF content # <<>> THEN content
        ELSE AppendSelectors(content, page.fallback, "f", 1)

PageTitle ==
    <<"T">>

\* None
NoArticle ==
    [url |-> <<>>, title |-> <<>>, content |-> <<>>]

ArticleEnvs ==
    {[setup |-> s, load |-> "ok", page |-> EmptyArticlePage] :
        s \in SetupOutcomes \ {"ok"}}
    \cup {[setup |-> "ok", load |-> "timeout", page |-> EmptyArticlePage]}
    \cup {[setup |-> "ok", load |-> "ok", page |-> p] : p \in ArticlePages}

\* scrape_article: the article it returns (NoArticle for None), whether it
\* raised instead, the browser sessions created and the quits made on them
ScrapeArticle(url, env) ==
    IF env.setup # "ok"
    THEN [article |-> NoArticle, raised |-> TRUE,
          created |-> IF env.setup = "created_then_failed" THEN 1 ELSE 0,
          quits |-> 0, exit |-> "unbound"]
    ELSE IF env.load # "ok"
    THEN [article |-> NoArticle, raised |-> FALSE, created |-> 1, quits |-> 1,
          exit |-> "caught"]
    ELSE LET content == ScrapeContent(env.page)
         IN  IF content # <<>>
             THEN [article |-> [url |-> url, title |-> PageTitle, content |-> content],
                   raised |-> FALSE, created |-> 1, quits |-> 1, exit |-> "article"]
             ELSE [article |-> NoArticle, raised |-> FALSE, created |-> 1,
                   quits |-> 1, exit |-> "empty"]

----------------------------------------------------------------------------
(* ingest.py: process_and_upload_articles and main.                        *)

\* MOCK_UPLOAD = False
MOCK_UPLOAD ==
    FALSE

\* the sources of the run: two sources, the second with two seed pages
SOURCES ==
    <<[base_urls |-> <<SeedA>>,
       article_patterns |-> <<PatternCarInsurance>>,
       excluded_terms |-> <<TermQuote, TermCalculator>>,
       max_articles |-> MaxArticles],
      [base_urls |-> <<SeedB, SeedB2>>,
       article_patterns |-> <<PatternCarInsurance>>,
       excluded_terms |-> <<TermQuote>>,
       max_articles |-> MaxArticles]>>

\* the (source, base_url) pairs in the order the two loops of main visit them
RECURSIVE SeedsFrom(_)
SeedsFrom(s) ==
    IF s > Len(SOURCES) THEN <<>>
    ELSE [k \in DOMAIN SOURCES[s].base_urls |->
             [config |-> SOURCES[s], base_url |-> SOURCES[s].base_urls[k]]]
         \o SeedsFrom(s + 1)

SeedList ==
    SeedsFrom(1)

\* the pages a seed renders to in a run: one content area, or none and the
\* scan of <body>
RunPages ==
    PagesOf(1)

\* what get_article_urls can return for each seed of the run
DiscoveryOutcomes ==
    [k \in DOMAIN SeedList |->
        {GetArticleUrls(SeedList[k].config, SeedList[k].base_url, env) :
            env \in BrowserEnvs(RunPages)}]

\* what process_and_upload_articles reads of a scrape_article result: the
\* way the call ended, the title, and whether "article and article["content"]"
\* holds (the chunks are a matter of the text splitter)
Scraped(r) ==
    [exit |-> r.exit, raised |-> r.raised, created |-> r.created, quits |-> r.quits,
     title |-> r.article.title, has_content |-> r.article.content # <<>>]

\* what scrape_article can return for each URL a seed page can link to
ScrapeOutcomes ==
    [url \in {l.href : l \in Links} |->
        {Scraped(ScrapeArticle(url, env)) : env \in ArticleEnvs}]

\* the orders in which "for url in article_urls" can visit a set
Orderings(S) ==
    {s \in [1 .. Cardinality(S) -> S] : Range(s) = S}

\* the id without the chunk index: one id for all the chunks of an article
VectorIdOfUrl(url, i) ==
    url

\* f"{url}-{i}"
VectorId(url, i) ==
    url \o <<"-">> \o Decimal(i)

\* the record appended for chunk i of an article of total chunks
VectorRecord(url, title, i, total) ==
    [id |-> VectorId(url, i), url |-> url, title |-> title, chunk_index |-> i,
     total_chunks |-> total, source |-> Netloc(url)]

\* the try around the whole chunk loop: the first failing embedding ends the
\* article
EmbedChunksUntilFailure(url, title, total, failed) ==
    SelectSeq([k \in 1 .. total |-> VectorRecord(url, title, k - 1, total)],
              LAMBDA v : \A i \in failed : v.chunk_index < i)

\* lines 334-354: the records appended for one article of total chunks, when
\* embed_query raises for the chunks in failed
EmbedChunks(url, title, total, failed) ==
    SelectSeq([k \in 1 .. total |-> VectorRecord(url, title, k - 1, total)],
              LAMBDA v : v.chunk_index \notin failed)

\* the maximum batch size the design document gives for one upsert call
MaxBatchSize == 100

\* chunk counts of an article with content: an ordinary article, or one long
\* enough that its chunks alone exceed the maximum batch size
ChunkCounts ==
    (1 .. MaxChunks) \cup {MaxBatchSize + 1}

\* the chunks whose embed_query call can fail
FailableChunks(total) ==
    0 .. ((IF total < MaxChunks THEN total ELSE MaxChunks) - 1)

NoCall ==
    [fn |-> "none", exit |-> "none", raised |-> FALSE, created |-> 0, quits |-> 0]

NoUpsert ==
    [issued |-> FALSE, size |-> 0, ok |-> FALSE, seed |-> 0]

CallOf(fn, r) ==
    [fn |-> fn, exit |-> r.exit, raised |-> r.raised, created |-> r.created,
     quits |-> r.quits]

InitRun ==
    /\ pc = "main"
    /\ seedIdx = 1
    /\ article_urls = <<>>
    /\ batch = <<>>
    /\ embedLog = <<>>
    /\ lastCall = NoCall
    /\ lastUpsert = NoUpsert

\* main, lines 372-376: get_article_urls for the next seed; an exception
\* leaves main, an empty set moves on to the next seed, a non-empty set is
\* handed to process_and_upload_articles
MainGetArticleUrls ==
    /\ pc = "main"
    /\ seedIdx <= Len(SeedList)
    /\ \E r \in DiscoveryOutcomes[seedIdx] :
           /\ lastCall' = CallOf("get_article_urls", r)
           /\ \/ /\ r.raised
                 /\ pc' = "crashed"
                 /\ UNCHANGED <<seedIdx, article_urls>>
              \/ /\ ~r.raised
                 /\ r.urls = {}
                 /\ pc' = "main"
                 /\ seedIdx' = seedIdx + 1
                 /\ UNCHANGED article_urls
              \/ /\ ~r.raised
                 /\ r.urls # {}
                 /\ pc' = "connect"
                 /\ article_urls' \in Orderings(r.urls)
                 /\ UNCHANGED seedIdx
    /\ UNCHANGED <<batch, embedLog, lastUpsert>>
    /\ UNCHANGED <<discoveryVars, reindexVars, chatVars, scrapeVars>>

\* process_and_upload_articles, lines 310-323: pc.Index fails and the
\* function returns, or the batch starts empty
ProcessConnect ==
    /\ pc = "connect"
    /\ \/ /\ pc' = "main"
          /\ seedIdx' = seedIdx + 1
          /\ article_urls' = <<>>
          /\ UNCHANGED <<batch, embedLog>>
       \/ /\ pc' = "articles"
          /\ batch' = <<>>
          /\ embedLog' = <<>>
          /\ UNCHANGED <<seedIdx, article_urls>>
    /\ UNCHANGED <<lastCall, lastUpsert>>
    /\ UNCHANGED <<discoveryVars, reindexVars, chatVars, scrapeVars>>

\* one iteration of "for url in article_urls", lines 324-354: scrape the
\* article, split it, embed each chunk and append the records of the chunks
\* whose embedding succeeded.  An exception of scrape_article is not caught
\* here or in main.
ProcessArticle ==
    /\ pc = "articles"
    /\ article_urls # <<>>
    /\ LET url == Head(article_urls)
       IN  \E r \in ScrapeOutcomes[url] :
               /\ lastCall' = CallOf("scrape_article", r)
               /\ \/ /\ r.raised
                     /\ pc' = "crashed"
                     /\ UNCHANGED <<article_urls, batch, embedLog>>
                  \/ /\ ~r.raised
                     /\ ~r.has_content
                     /\ article_urls' = Tail(article_urls)
                     /\ UNCHANGED <<pc, batch, embedLog>>
                  \/ /\ ~r.raised
                     /\ r.has_content
                     /\ \E total \in ChunkCounts :
                        \E failed \in SUBSET FailableChunks(total) :
                            /\ batch' = batch \o EmbedChunks(url, r.title, total, failed)
                            /\ embedLog' = Append(embedLog,
                                  [url |-> url, total |-> total, failed |-> failed])
                     /\ article_urls' = Tail(article_urls)
                     /\ UNCHANGED pc
    /\ UNCHANGED <<seedIdx, lastUpsert>>
    /\ UNCHANGED <<discoveryVars, reindexVars, chatVars, scrapeVars>>

\* an exception of index.upsert left uncaught: the run ends there
UpsertNotCaught(ok) ==
    IF ok THEN "main" ELSE "crashed"

\* lines 357-362: try: index.upsert(...) except Exception: print(...); the
\* function returns to main whether the upsert succeeded or raised
UpsertCaught(ok) ==
    "main"

\* lines 356-364: one upsert of the whole batch when it is not empty; an
\* exception of index.upsert is caught; the function returns to main, whose
\* loop goes to the next seed
ProcessUpsert ==
    /\ pc = "articles"
    /\ article_urls = <<>>
    /\ IF batch # <<>> /\ ~MOCK_UPLOAD
       THEN \E ok \in BOOLEAN :
                /\ lastUpsert' = [issued |-> TRUE, size |-> Len(batch), ok |-> ok,
                                  seed |-> seedIdx]
                /\ pc' = UpsertCaught(ok)
       ELSE /\ lastUpsert' = [NoUpsert EXCEPT !.seed = seedIdx]
            /\ pc' = "main"
    /\ seedIdx' = IF pc' = "main" THEN seedIdx + 1 ELSE seedIdx
    /\ UNCHANGED <<article_urls, batch, embedLog, lastCall>>
    /\ UNCHANGED <<discoveryVars, reindexVars, chatVars, scrapeVars>>

\* line 378: every seed of every source was visited
MainDone ==
    /\ pc = "main"
    /\ seedIdx > Len(SeedList)
    /\ pc' = "done"
    /\ UNCHANGED <<seedIdx, article_urls, batch, embedLog, lastCall, lastUpsert>>
    /\ UNCHANGED <<discoveryVars, reindexVars, chatVars, scrapeVars>>

----------------------------------------------------------------------------
(* get_article_urls applied to one source configuration, seed and page.    *)

InitDiscoveryIdle ==
    /\ call = [source_config |-> [article_patterns |-> <<>>, excluded_terms |-> <<>>,
                                  max_articles |-> 0],
               base_url |-> <<>>,
               env |-> [setup |-> "ok", load |-> "ok", denied |-> FALSE,
                        page |-> EmptyPage]]
    /\ ret = NoRet

InitDiscovery ==
    /\ call \in [source_config : DiscoveryConfigs,
                 base_url : {SeedA},
                 env : BrowserEnvs(Pages)]
    /\ ret = NoRet

Discover ==
    /\ ret = NoRet
    /\ ret' = GetArticleUrls(call.source_config, call.base_url, call.env)
    /\ UNCHANGED call
    /\ UNCHANGED <<runVars, reindexVars, chatVars, scrapeVars>>

----------------------------------------------------------------------------
(* scrape_article on one article page.                                     *)

\* scrape_article not called yet
NoScrape ==
    [article |-> NoArticle, raised |-> FALSE, created |-> 0, quits |-> 0,
     exit |-> "none"]

InitScrapeIdle ==
    /\ scrapeCall = [url |-> <<>>,
                     env |-> [setup |-> "ok", load |-> "ok", page |-> EmptyArticlePage]]
    /\ scrapeRet = NoScrape

InitScrape ==
    /\ scrapeCall \in [url : {SeedA}, env : ArticleEnvs]
    /\ scrapeRet = NoScrape

Scrape ==
    /\ scrapeRet = NoScrape
    /\ scrapeRet' = ScrapeArticle(scrapeCall.url, scrapeCall.env)
    /\ UNCHANGED scrapeCall
    /\ UNCHANGED <<discoveryVars, runVars, reindexVars, chatVars>>

----------------------------------------------------------------------------
(* process_and_upload_articles run again on the same articles.             *)

\* index.upsert(vectors=batch): a record replaces the stored record of the
\* same id
Upsert(stored, vectors) ==
    {r \in stored : \A k \in DOMAIN vectors : vectors[k].id # r.id}
    \cup {vectors[k] : k \in {k \in DOMAIN vectors :
                                \A j \in DOMAIN vectors :
                                    vectors[j].id = vectors[k].id => j <= k}}

\* the batch lines 323-354 build from articles given as (url, number of
\* chunks, chunks whose embedding fails)
RECURSIVE BatchOf(_)
BatchOf(articles) ==
    IF articles = <<>> THEN <<>>
    ELSE EmbedChunks(Head(articles).url, PageTitle, Head(articles).total,
                     Head(articles).failed)
         \o BatchOf(Tail(articles))

\* article URLs of the input: one is another with "-1" appended, as the id
\* format appends "-" and the chunk index
UrlGlass ==
    <<"h", "t", "t", "p", "s", ":", "/", "/", "a", ".", "c", "o", "/", "g">>

UrlGlass1 ==
    <<"h", "t", "t", "p", "s", ":", "/", "/", "a", ".", "c", "o", "/", "g", "-", "1">>

IndexUrls ==
    {UrlGlass, UrlGlass1}

\* an article of the input: its URL, the number of chunks the splitter
\* gives, and the chunks whose embedding fails
ArticleInputs ==
    UNION {[url : IndexUrls, total : {total}, failed : SUBSET (0 .. (total - 1))] :
              total \in 1 .. MaxChunks}

\* article_urls is a set: the URLs of one input are distinct
ReindexInputs ==
    {as \in SeqsUpTo(ArticleInputs, Cardinality(IndexUrls)) :
        \A i, j \in DOMAIN as : as[i].url = as[j].url => i = j}

InitReindexIdle ==
    /\ articlesIn = <<>>
    /\ index = {}
    /\ runs = <<>>

InitReindex ==
    /\ articlesIn \in ReindexInputs
    /\ index = {}
    /\ runs = <<>>

\* one run of lines 323-362 over articlesIn: the batch is built and, when it
\* is not empty, upserted; a failing upsert stores nothing
ProcessAndUpload ==
    /\ Len(runs) < MaxRuns
    /\ LET vectors == BatchOf(articlesIn)
       IN  \E ok \in BOOLEAN :
               /\ index' = IF vectors # <<>> /\ ~MOCK_UPLOAD /\ ok
                           THEN Upsert(index, vectors)
                           ELSE index
               /\ runs' = Append(runs, [ids |-> {v.id : v \in Range(vectors)},
                                        size |-> Len(vectors),
                                        stored |-> vectors # <<>> /\ ~MOCK_UPLOAD /\ ok])
    /\ UNCHANGED articlesIn
    /\ UNCHANGED <<discoveryVars, runVars, chatVars, scrapeVars>>

----------------------------------------------------------------------------
(* qa_bot.py: get_answer, and the conversation memory of the module.       *)

Sessions ==
    {"s1", "s2"}

Questions ==
    {"q1", "q2"}

\* the text the language model returns
LlmAnswer ==
    "a1"

\* the text the design document fixes for a question with no retrieved chunk
NoInformationText ==
    "I couldn't find any relevant information in my knowledge base to answer your question."

\* k=3 of similarity_search
TopK == 3

\* f"Error getting answer: {str(e)}"
ErrorAnswer(e) ==
    "Error getting answer: " \o e

\* what the services do during one get_answer: similarity_search raises or
\* returns 0 .. TopK documents; the chain fails in its own retrieval, fails in
\* the generation request, or returns the model's text
AnswerEnvs ==
    {[search |-> "raises", docs |-> 0, chain |-> "ok"]}
    \cup [search : {"ok"}, docs : 0 .. TopK,
          chain : {"retrieval_failed", "generation_failed", "ok"}]

\* the turns ConversationBufferMemory.save_context stores for one exchange
\* (session is history of the model: the session the exchange came from)
MemoryTurns(s, question, answer) ==
    <<[role |-> "user", content |-> question, session |-> s],
      [role |-> "assistant", content |-> answer, session |-> s]>>

\* get_answer without its try: the exception reaches the caller
NotCaught(e, mem) ==
    [raised |-> TRUE, answer |-> "", memory |-> mem]

\* what the except clause of get_answer does with an exception: it is
\* turned into the returned string
Caught(e, mem) ==
    [raised |-> FALSE, answer |-> ErrorAnswer(e), memory |-> mem]

\* get_answer, lines 68-100.  The chain is called whatever the number of
\* documents found; it takes its chat history from the module's memory
\* object (the "chat_history": [] of the call is replaced by the memory's
\* variables) and saves the exchange to that memory when it succeeds.
GetAnswer(s, question, env, mem) ==
    IF env.search = "raises"
    THEN Caught("search failed", mem)
         @@ [docs |-> 0, failure |-> "search", called |-> FALSE,
             llm_requested |-> FALSE, consulted |-> <<>>]
    ELSE IF env.chain = "retrieval_failed"
    THEN Caught("retrieval failed", mem)
         @@ [docs |-> env.docs, failure |-> "retrieval", called |-> TRUE,
             llm_requested |-> FALSE, consulted |-> mem]
    ELSE IF env.chain = "generation_failed"
    THEN Caught("generation failed", mem)
         @@ [docs |-> env.docs, failure |-> "generation", called |-> TRUE,
             llm_requested |-> TRUE, consulted |-> mem]
    ELSE [raised |-> FALSE, answer |-> LlmAnswer,
          memory |-> mem \o MemoryTurns(s, question, LlmAnswer),
          docs |-> env.docs, failure |-> "none", called |-> TRUE,
          llm_requested |-> TRUE, consulted |-> mem]

NoAnswer ==
    [raised |-> FALSE, answer |-> "", docs |-> 0, failure |-> "none",
     called |-> FALSE, llm_requested |-> FALSE, consulted |-> <<>>]

----------------------------------------------------------------------------
(* app.py: the chat sessions.                                              *)

InitChatIdle ==
    /\ messages = [s \in Sessions |-> <<>>]
    /\ chatPc = [s \in Sessions |-> "idle"]
    /\ prompt = [s \in Sessions |-> ""]
    /\ response = [s \in Sessions |-> ""]
    /\ memory = <<>>
    /\ lastAnswer = [s \in Sessions |-> NoAnswer]
    /\ exchanges = [s \in Sessions |-> <<>>]
    /\ questions = 0

\* the turn inserted at the front of the log
Prepended(log, turn) ==
    <<turn>> \o log

\* st.session_state.messages.append(turn)
Appended(log, turn) ==
    Append(log, turn)

\* lines 54-60: a question is submitted and the user turn appended
SubmitQuestion(s, q) ==
    /\ chatPc[s] = "idle"
    /\ questions < MaxQuestions
    /\ questions' = questions + 1
    /\ messages' = [messages EXCEPT ![s] =
           Appended(@, [role |-> "user", content |-> q])]
    /\ prompt' = [prompt EXCEPT ![s] = q]
    /\ chatPc' = [chatPc EXCEPT ![s] = "answering"]
    /\ UNCHANGED <<response, memory, lastAnswer, exchanges>>
    /\ UNCHANGED <<discoveryVars, runVars, reindexVars, scrapeVars>>

\* line 65: response = get_answer(prompt); an exception would end the script
\* run before line 69
CallGetAnswer(s) ==
    /\ chatPc[s] = "answering"
    /\ \E env \in AnswerEnvs :
           LET r == GetAnswer(s, prompt[s], env, memory)
           IN  /\ lastAnswer' = [lastAnswer EXCEPT ![s] =
                      [raised |-> r.raised, answer |-> r.answer, docs |-> r.docs,
                       failure |-> r.failure, called |-> r.called,
                       llm_requested |-> r.llm_requested, consulted |-> r.consulted]]
               /\ memory' = r.memory
               /\ IF r.raised
                  THEN /\ chatPc' = [chatPc EXCEPT ![s] = "idle"]
                       /\ UNCHANGED <<response, exchanges>>
                  ELSE /\ chatPc' = [chatPc EXCEPT ![s] = "responding"]
                       /\ response' = [response EXCEPT ![s] = r.answer]
                       /\ exchanges' = [exchanges EXCEPT ![s] =
                              Append(@, [question |-> prompt[s], answer |-> r.answer])]
    /\ UNCHANGED <<messages, prompt, questions>>
    /\ UNCHANGED <<discoveryVars, runVars, reindexVars, scrapeVars>>

\* line 69: the assistant turn is appended and the script run ends (its
\* locals prompt and response are gone)
AppendResponse(s) ==
    /\ chatPc[s] = "responding"
    /\ messages' = [messages EXCEPT ![s] =
           Appended(@, [role |-> "assistant", content |-> response[s]])]
    /\ chatPc' = [chatPc EXCEPT ![s] = "idle"]
    /\ prompt' = [prompt EXCEPT ![s] = ""]
    /\ response' = [response EXCEPT ![s] = ""]
    /\ lastAnswer' = [lastAnswer EXCEPT ![s] = NoAnswer]
    /\ UNCHANGED <<memory, exchanges, questions>>
    /\ UNCHANGED <<discoveryVars, runVars, reindexVars, scrapeVars>>

\* lines 90-92: Clear Chat empties the session's log and reruns the script
ClearChat(s) ==
    /\ chatPc[s] = "idle"
    /\ messages[s] # <<>>
    /\ messages' = [messages EXCEPT ![s] = <<>>]
    /\ exchanges' = [exchanges EXCEPT ![s] = <<>>]
    /\ UNCHANGED <<chatPc, prompt, response, memory, lastAnswer, questions>>
    /\ UNCHANGED <<discoveryVars, runVars, reindexVars, scrapeVars>>

----------------------------------------------------------------------------
(* The specifications.                                                     *)

\* one run of main() of ingest.py
Init ==
    InitRun /\ InitDiscoveryIdle /\ InitReindexIdle /\ InitChatIdle /\ InitScrapeIdle

Next ==
    \/ MainGetArticleUrls
    \/ ProcessConnect
    \/ ProcessArticle
    \/ ProcessUpsert
    \/ MainDone

Spec ==
    Init /\ [][Next]_vars

\* get_article_urls on one input
DiscoveryInit ==
    InitRun /\ InitDiscovery /\ InitReindexIdle /\ InitChatIdle /\ InitScrapeIdle

DiscoveryNext ==
    Discover

SpecDiscovery ==
    DiscoveryInit /\ [][DiscoveryNext]_vars

\* the indexer run again on the same input
ReindexInit ==
    InitRun /\ InitDiscoveryIdle /\ InitReindex /\ InitChatIdle /\ InitScrapeIdle

ReindexNext ==
    ProcessAndUpload

SpecReindex ==
    ReindexInit /\ [][ReindexNext]_vars

\* the chat sessions of one process
ChatInit ==
    InitRun /\ InitDiscoveryIdle /\ InitReindexIdle /\ InitChatIdle /\ InitScrapeIdle

ChatNext ==
    \E s \in Sessions :
        \/ \E q \in Questions : SubmitQuestion(s, q)
        \/ CallGetAnswer(s)
        \/ AppendResponse(s)
        \/ ClearChat(s)

SpecChat ==
    ChatInit /\ [][ChatNext]_vars

\* scrape_article on one input
ScrapeInit ==
    InitRun /\ InitDiscoveryIdle /\ InitReindexIdle /\ InitChatIdle /\ InitScrape

ScrapeNext ==
    Scrape

SpecScrape ==
    ScrapeInit /\ [][ScrapeNext]_vars

----------------------------------------------------------------------------
(* The claims.                                                             *)

\* the link is an anchor of a content area the scan of the page enumerates
Offered(link, page) ==
    LET content_areas == IF page.areas = <<>> THEN <<page.body>> ELSE page.areas
    IN  \E k \in DOMAIN content_areas :
            /\ ~content_areas[k].stale
            /\ link \in Range(content_areas[k].links)

\* C1: whatever the source configuration, seed and rendered page, the set
\* get_article_urls returns holds no URL that contains a configured exclusion
\* term as a case-insensitive substring, and has at most max_articles
\* elements; under the terms "quote", "calculator" the link
\* .../car-insurance/quote-builder is left out and the same-origin link
\* .../car-insurance/deductibles-explained with text is kept (when the scan
\* was not cut short by the maximum).
DiscoveryExcludesTermsAndCaps ==
    ret.exit # "none" =>
        LET source_config == call.source_config
        IN  /\ \A u \in ret.urls :
                   \A term \in Range(source_config.excluded_terms) :
                       ~Contains(Lower(u), Lower(term))
            /\ Cardinality(ret.urls) <= source_config.max_articles
            /\ source_config.excluded_terms = <<TermQuote, TermCalculator>> =>
                   /\ HrefQuoteBuilder \notin ret.urls
                   /\ ( /\ ret.exit = "normal"
                        /\ Offered([href |-> HrefDeductibles, text |-> TextGo],
                                   call.env.page) )
                      => HrefDeductibles \in ret.urls

\* C2: when the similarity search of get_answer returns no chunk, the answer
\* is the fixed no-information text and no generation request is issued.
NoChunksShortCircuit ==
    \A s \in Sessions :
        ( /\ chatPc[s] = "responding"
          /\ lastAnswer[s].failure # "search"
          /\ lastAnswer[s].docs = 0 )
        => /\ response[s] = NoInformationText
           /\ ~lastAnswer[s].llm_requested

\* the chunks of the current process_and_upload_articles call whose
\* embedding succeeded
EmbeddedChunks ==
    UNION {{<<embedLog[k].url, i>> :
               i \in (0 .. (embedLog[k].total - 1)) \ embedLog[k].failed} :
              k \in DOMAIN embedLog}

IsPrefix(s, t) ==
    Len(s) <= Len(t) /\ SubSeq(t, 1, Len(s)) = s

\* the batch holds one record, with its own chunk index and id, for exactly
\* the chunks embedded so far, consecutive chunks of an article in their
\* order
BatchIsEmbeddedChunks ==
    /\ {<<v.url, v.chunk_index>> : v \in Range(batch)} = EmbeddedChunks
    /\ Len(batch) = Cardinality(EmbeddedChunks)
    /\ \A v \in Range(batch) :
           v.id = v.url \o <<"-">> \o Decimal(v.chunk_index)
    /\ \A k \in 1 .. (Len(batch) - 1) :
           batch[k].url = batch[k + 1].url =>
               batch[k].chunk_index < batch[k + 1].chunk_index

\* C3: in process_and_upload_articles a failing embedding skips only its
\* chunk: the batch holds a record, with its own chunk index and id, for
\* every chunk of the same and of later articles whose embedding succeeded;
\* the step in which an embedding fails keeps the batch and stays in the
\* loop; and when the loop is over the batch is upserted.
EmbeddingFailureSkipsOnlyThatChunk ==
    /\ []BatchIsEmbeddedChunks
    /\ [][(embedLog' # embedLog /\ embedLog' # <<>>
            /\ embedLog'[Len(embedLog')].failed # {})
           => (pc' = "articles" /\ IsPrefix(batch, batch'))]_vars
    /\ [][(pc = "articles" /\ article_urls = <<>> /\ batch # <<>>)
           => (lastUpsert'.issued /\ lastUpsert'.size = Len(batch))]_vars

\* a call upserted a batch after an embedding failed in its first article,
\* with another chunk of that article and the chunks of the next one in it
SkippedChunkWitness ==
    /\ pc = "main"
    /\ lastUpsert.issued
    /\ lastUpsert.seed = seedIdx - 1
    /\ lastUpsert.size = Len(batch)
    /\ Len(embedLog) = 2
    /\ embedLog[1].failed # {}
    /\ Cardinality(embedLog[1].failed) < embedLog[1].total
    /\ embedLog[2].failed = {}
    /\ \E v \in Range(batch) : v.url = embedLog[2].url

\* C4: every upsert call carries at most the maximum batch size of records.
UpsertBatchBounded ==
    lastUpsert.issued => lastUpsert.size <= MaxBatchSize

\* C5: a browser start-up failure, page-load timeout or empty extraction in
\* get_article_urls or scrape_article is contained: the function returns
\* without raising and the run goes on.
FailureContainedToUrl ==
    lastCall.exit \in {"unbound", "caught", "empty"} =>
        (~lastCall.raised /\ pc # "crashed")

\* C6: every browser session created during get_article_urls or
\* scrape_article has been quit exactly once when the function is left.
EverySessionQuitOnce ==
    lastCall.quits = lastCall.created

\* the (url, chunk index) pairs of the input whose embedding succeeds
InputChunks ==
    UNION {{<<articlesIn[k].url, i>> :
               i \in (0 .. (articlesIn[k].total - 1)) \ articlesIn[k].failed} :
              k \in DOMAIN articlesIn}

\* C7: every run of the indexer on the same input offers the same set of
\* ids, one id for each (url, chunk index) pair embedded, and once a run has
\* stored its batch the ids in the index are that set, however many runs
\* follow.
ReindexSameIds ==
    /\ \A i, j \in DOMAIN runs : runs[i].ids = runs[j].ids
    /\ \A i \in DOMAIN runs : Cardinality(runs[i].ids) = Cardinality(InputChunks)
    /\ IF \E i \in DOMAIN runs : runs[i].stored
       THEN /\ {r.id : r \in index} = runs[1].ids
            /\ Cardinality(index) = Cardinality(InputChunks)
            /\ {<<r.url, r.chunk_index>> : r \in index} = InputChunks
       ELSE index = {}

\* two runs stored an input of two articles, one of which lost a chunk to an
\* embedding failure
ReindexTwiceWitness ==
    /\ Len(runs) = 2
    /\ runs[1].stored /\ runs[2].stored
    /\ Len(articlesIn) = 2
    /\ \E k \in DOMAIN articlesIn : articlesIn[k].failed # {}
    /\ Cardinality(index) >= 2

\* the log of a session between exchanges: a user turn and an assistant
\* turn for each question asked since the last reset, in order
PairsInOrder(s) ==
    /\ Len(messages[s]) = 2 * Len(exchanges[s])
    /\ \A k \in DOMAIN exchanges[s] :
           /\ messages[s][2 * k - 1] =
                  [role |-> "user", content |-> exchanges[s][k].question]
           /\ messages[s][2 * k] =
                  [role |-> "assistant", content |-> exchanges[s][k].answer]

\* C8: between exchanges the message log of a session is the sequence of
\* (user question, assistant answer) pairs asked since the last reset, in
\* order; a step either extends the log or, as Clear Chat between exchanges,
\* empties it.
MessageLogAppendOnly ==
    /\ [](\A s \in Sessions : chatPc[s] = "idle" => PairsInOrder(s))
    /\ [][\A s \in Sessions :
              \/ IsPrefix(messages[s], messages'[s])
              \/ /\ chatPc[s] = "idle" /\ chatPc'[s] = "idle"
                 /\ messages'[s] = <<>>]_vars

\* a session holds two exchanges asked after a reset
TwoExchangesWitness ==
    \E s \in Sessions :
        /\ chatPc[s] = "idle"
        /\ Len(messages[s]) = 4
        /\ questions = 3
        /\ messages[s][1].content # messages[s][3].content

ErrorStrings ==
    {ErrorAnswer(e) : e \in {"search failed", "retrieval failed", "generation failed"}}

\* C9: get_answer never raises; when the retrieval or generation call fails
\* it returns an error string, the exchange is completed with both turns in
\* the log, and the session takes further questions.
GetAnswerNeverRaises ==
    \A s \in Sessions :
        /\ ~lastAnswer[s].raised
        /\ (chatPc[s] = "responding" /\ lastAnswer[s].failure # "none") =>
               response[s] \in ErrorStrings
        /\ chatPc[s] = "idle" => PairsInOrder(s)

\* a failed exchange is in the log, followed by an answered one
AnsweredAfterFailureWitness ==
    \E s \in Sessions :
        /\ chatPc[s] = "idle"
        /\ Len(messages[s]) = 4
        /\ messages[s][2].content \in ErrorStrings
        /\ messages[s][4].content = LlmAnswer

\* C10: the history the chain consults for a question is the asking
\* session's own log before that question: it holds no turn of another
\* session and is empty after Clear Chat.
HistoryIsOwnSessionLog ==
    \A s \in Sessions :
        (chatPc[s] = "responding" /\ lastAnswer[s].called) =>
            LET consulted == lastAnswer[s].consulted
            IN  /\ \A k \in DOMAIN consulted : consulted[k].session = s
                /\ [k \in DOMAIN consulted |->
                       [role |-> consulted[k].role, content |-> consulted[k].content]]
                   = SubSeq(messages[s], 1, Len(messages[s]) - 1)

\* the texts the body-selector strategies yield on the page, in their order:
\* the source-specific selectors, then the generic fallbacks
StrategyTexts(page) ==
    [k \in 1 .. NumContentSelectors |-> JoinedText(page.specific[k], "s", k)]
    \o [k \in 1 .. NumFallbackSelectors |-> JoinedText(page.fallback[k], "f", k)]

\* the text of the first strategy that yields non-empty text, <<>> if none
FirstStrategyText(page) ==
    LET texts == StrategyTexts(page)
        yielding == {k \in DOMAIN texts : texts[k] # <<>>}
    IN  IF yielding = {} THEN <<>>
        ELSE texts[CHOOSE k \in yielding : \A j \in yielding : k <= j]

\* C11: the content of the article scrape_article returns is the text of
\* the first body-selector strategy (source-specific selectors, then the
\* generic fallbacks) that yields non-empty text, and holds no text of a
\* later strategy.
FirstStrategyWins ==
    scrapeRet.exit = "article" =>
        scrapeRet.article.content = FirstStrategyText(scrapeCall.env.page)

\* a step in which index.upsert was called and raised
UpsertFailedStep ==
    /\ pc = "articles"
    /\ article_urls = <<>>
    /\ pc' # pc
    /\ lastUpsert'.issued
    /\ ~lastUpsert'.ok

\* C12: an upsert that fails does not stop the run: the failure is caught
\* and main goes to the next seed; the run never ends at an upsert (it ends
\* early only where a scraping call raised); and the articles of every seed
\* processed afterwards, once embedded, are offered in an upsert call of
\* their own seed.
UpsertFailureDoesNotStopRun ==
    /\ [][UpsertFailedStep =>
             /\ pc' = "main"
             /\ seedIdx' = seedIdx + 1
             /\ lastUpsert'.seed = seedIdx]_vars
    /\ [](pc = "crashed" => lastCall.raised)
    /\ [][(pc = "articles" /\ article_urls = <<>> /\ batch # <<>> /\ pc' # pc) =>
             /\ lastUpsert'.issued
             /\ lastUpsert'.seed = seedIdx
             /\ lastUpsert'.size = Len(batch)]_vars
    /\ [](pc = "done" => seedIdx > Len(SeedList))

\* the upsert of an earlier seed failed, and the articles of a later seed
\* have been scraped and embedded and are about to be upserted
LaterSeedAfterFailedUpsertWitness ==
    /\ lastUpsert.issued
    /\ ~lastUpsert.ok
    /\ lastUpsert.seed < seedIdx
    /\ pc = "articles"
    /\ article_urls = <<>>
    /\ batch # <<>>

====
